---- MODULE Spec2Model ----
(***************************************************************************)
(* Word-sense induction pipeline of ober-ml:                               *)
(*   - com.ober.ml.cw.graph.Graph and WSI.loadGraph (edge-file loader),    *)
(*   - tokens_inner.pyx (argpartition, calculate_edges),                   *)
(*   - WSI.Worker (createTokenGraph, chineseWhispers, findClusters).       *)
(* Weights and similarity scores are floats in the program; the model      *)
(* draws them from small integer ranges, which keeps their order and their *)
(* (exact) sums.                                                           *)
(***************************************************************************)
EXTENDS Integers, Sequences, FiniteSets, TLC

\* ------------------------------------------------------------------ bounds
MaxNode == 4
MaxFileNode == 1
BigNode == 128
MaxWeight == 2
MaxTriples == 3

\* java.lang.Integer.valueOf keeps one object per value in -128..127 (the
\* default IntegerCache.high); a larger value is boxed into a fresh object.
IntegerCacheHigh == 127

\* Node ids: small ids and one id above the Integer cache.
Ids == (0..MaxNode) \cup {BigNode}
\* Node ids that occur in the edge file read by the loader.
FileIds == (0..MaxFileNode) \cup {BigNode}
Weights == 1..MaxWeight

Max(a, b) == IF a >= b THEN a ELSE b
Min(a, b) == IF a <= b THEN a ELSE b

SeqToSet(s) == {s[p] : p \in 1..Len(s)}

\* ------------------------------------------------------------------ Graph
\* A Java reference that is null is the empty sequence, an Integer object
\* holding c is <<c>>.
Null == <<>>
Box(c) == <<c>>

\* Graph(int initialSize, int initialNumEdgesPerNode)
NewGraph(initialSize) ==
    [size          |-> initialSize,
     nodes         |-> {},
     nodeClasses   |-> [v \in Ids |-> Null],
     edgeSourceSet |-> [v \in Ids |-> {}],
     edgeSources   |-> [v \in Ids |-> <<>>],
     edgeWeights   |-> [v \in Ids |-> <<>>]]

\* Graph.getSize
getSize(g) == Cardinality(g.nodes)

\* Graph.ensureCapacity
ensureCapacity(g, minSize) ==
    IF minSize > g.size
    THEN [g EXCEPT !.size = Max(minSize, g.size * 2)]
    ELSE g

\* Graph.addNode(Integer node)
addNode(g, node) ==
    LET g1 == ensureCapacity(g, node + 1)
    IN  IF node \notin g1.nodes
        THEN [g1 EXCEPT !.nodes = @ \cup {node},
                        !.edgeSourceSet[node] = {},
                        !.edgeSources[node] = <<>>,
                        !.edgeWeights[node] = <<>>]
        ELSE g1

\* Whether two boxings (Integer.valueOf) of the int values a and b yield the
\* same object: the values are equal and lie in the Integer cache.
SameBoxed(a, b) == a = b /\ a <= IntegerCacheHigh

\* A variant of addEdge that appends to the from-list only.
addEdgeOneWay(g, from, to, weight, sameObject) ==
    IF ~sameObject
    THEN LET g1 == addNode(addNode(g, from), to)
         IN  IF to \notin g1.edgeSourceSet[from]
             THEN [g1 EXCEPT !.edgeSourceSet[from] = @ \cup {to},
                             !.edgeSources[from] = Append(@, to),
                             !.edgeWeights[from] = Append(@, weight)]
             ELSE g1
    ELSE g

\* A variant of addEdge that appends without consulting edgeSourceSet.
addEdgeNoDedup(g, from, to, weight, sameObject) ==
    IF ~sameObject
    THEN LET g1 == addNode(addNode(g, from), to)
             g2 == [g1 EXCEPT !.edgeSourceSet[from] = @ \cup {to},
                              !.edgeSources[from] = Append(@, to),
                              !.edgeWeights[from] = Append(@, weight)]
         IN  [g2 EXCEPT !.edgeSourceSet[to] = @ \cup {from},
                        !.edgeSources[to] = Append(@, from),
                        !.edgeWeights[to] = Append(@, weight)]
    ELSE g

\* Graph.addEdge(Integer from, Integer to, Float weight).  The guard
\* "from != to" compares the two Integer references: sameObject says whether
\* the arguments are one object.
addEdge(g, from, to, weight, sameObject) ==
    IF ~sameObject
    THEN LET g1 == addNode(addNode(g, from), to)
             g2 == IF to \notin g1.edgeSourceSet[from]
                   THEN [g1 EXCEPT !.edgeSourceSet[from] = @ \cup {to},
                                   !.edgeSources[from] = Append(@, to),
                                   !.edgeWeights[from] = Append(@, weight)]
                   ELSE g1
         IN  IF from \notin g2.edgeSourceSet[to]
             THEN [g2 EXCEPT !.edgeSourceSet[to] = @ \cup {from},
                             !.edgeSources[to] = Append(@, from),
                             !.edgeWeights[to] = Append(@, weight)]
             ELSE g2
    ELSE g

\* Graph.getEdgeWeight: the weight at the first position of from's list that
\* holds to, 0 when there is none.
getEdgeWeight(g, from, to) ==
    LET hits == {p \in 1..Len(g.edgeSources[from]) : g.edgeSources[from][p] = to}
    IN  IF hits = {} THEN 0
        ELSE g.edgeWeights[from][CHOOSE p \in hits : \A q \in hits : p <= q]

\* Graph.getNeighbors
getNeighbors(g, node) == g.edgeSources[node]

\* Graph.getEdges: the (node, weight) pairs of node's lists, in list order.
getEdges(g, node) ==
    [p \in 1..Len(g.edgeSources[node]) |->
        [node |-> g.edgeSources[node][p], weight |-> g.edgeWeights[node][p]]]

\* Graph.getNodes: the present nodes in ascending order.
RECURSIVE AscendingSeq(_)
AscendingSeq(S) ==
    IF S = {} THEN <<>>
    ELSE LET lo == CHOOSE x \in S : \A y \in S : x <= y
         IN  <<lo>> \o AscendingSeq(S \ {lo})

getNodes(g) == AscendingSeq({v \in g.nodes : v < g.size})

\* Arrays.sort(indexes, comparator on weights): a stable sort of the
\* positions 1..Len(weights) by ascending weight.
RECURSIVE InsertStable(_, _, _)
InsertStable(sorted, p, weights) ==
    IF sorted = <<>> THEN <<p>>
    ELSE IF weights[sorted[Len(sorted)]] <= weights[p]
         THEN Append(sorted, p)
         ELSE Append(InsertStable(SubSeq(sorted, 1, Len(sorted) - 1), p, weights),
                     sorted[Len(sorted)])

RECURSIVE SortedIndexesUpTo(_, _)
SortedIndexesUpTo(weights, m) ==
    IF m = 0 THEN <<>>
    ELSE InsertStable(SortedIndexesUpTo(weights, m - 1), m, weights)

SortedIndexes(weights) == SortedIndexesUpTo(weights, Len(weights))

\* A variant of sortEdges that reorders the weights and leaves the sources.
sortEdgesWeightsOnly(g) ==
    [g EXCEPT !.edgeWeights =
        [v \in Ids |->
            LET ix == SortedIndexes(g.edgeWeights[v])
            IN  [p \in 1..Len(ix) |-> g.edgeWeights[v][ix[p]]]]]

\* Graph.sortEdges: for every node, sources and weights reordered by the
\* same sorted index array.
sortEdges(g) ==
    [g EXCEPT !.edgeSources =
        [v \in Ids |->
            LET ix == SortedIndexes(g.edgeWeights[v])
            IN  [p \in 1..Len(ix) |-> g.edgeSources[v][ix[p]]]],
              !.edgeWeights =
        [v \in Ids |->
            LET ix == SortedIndexes(g.edgeWeights[v])
            IN  [p \in 1..Len(ix) |-> g.edgeWeights[v][ix[p]]]]]

\* Graph.getNodeClass / Graph.setNodeClass
getNodeClass(g, node) == IF node < g.size THEN g.nodeClasses[node] ELSE Null

setNodeClass(g, node, c) ==
    IF node < g.size THEN [g EXCEPT !.nodeClasses[node] = c] ELSE g

\* ------------------------------------------------------------------ state
VARIABLES
    distributedGraph,   \* WSI.distributedGraph
    loadPc,             \* position in WSI.loadGraph
    nread,              \* triples read from the edge file so far
    lastEdge            \* the triple of the last addEdge call of the loader

loadVars == <<distributedGraph, loadPc, nread, lastEdge>>

VARIABLES
    N_TOKENS,           \* export_distributed_graph: number of tokens
    n,                  \* neighbors per token
    batch_size,
    index,              \* calculate_edges: the batch index
    c_sim,              \* score buffer of the current row (argpartition: similar)
    c_nearest,          \* index buffer (argpartition: nearest)
    edges,              \* the shared output array of GraphEdge
    i,                  \* calculate_edges: row within the batch
    j,                  \* calculate_edges: position in c_nearest
    offset,
    k,                  \* argpartition: k
    size,               \* argpartition: size
    from_i,
    to_i,
    kpc,                \* position in calculate_edges / argpartition
    written             \* edge slots written while processing the current row

partVars == <<c_sim, c_nearest, k, size, from_i, to_i>>
calcVars == <<N_TOKENS, n, batch_size, index, edges, i, j, offset, written>>
kernelVars == <<partVars, calcVars, kpc>>

VARIABLES
    maxEdges,           \* Worker.maxEdges
    maxConnectivity,
    maxIterations,
    minCluster,
    batchStart,
    batchEnd,
    baseNode,           \* Worker.run: i, the base node being processed
    tokenGraph,         \* the ego network of baseNode
    z,                  \* chineseWhispers: the sweep counter
    changed,
    sweeps,             \* sweeps over the ego nodes performed for baseNode
    fcNodes,            \* findClusters: nodes
    sense,              \* findClusters: sense
    formed,             \* clusters formed for baseNode, in order, put or not
    clusterQueue,       \* the BlockingQueue of finished clusters
    progress,           \* the AtomicInteger progress
    wpc                 \* position in Worker.run

paramVars == <<maxEdges, maxConnectivity, maxIterations, minCluster, batchStart, batchEnd>>
workerVars == <<paramVars, baseNode, tokenGraph, z, changed, sweeps, fcNodes, sense,
                formed, clusterQueue, progress, wpc>>

workerLocalVars == <<batchStart, batchEnd, baseNode, tokenGraph, z, changed, sweeps,
                     fcNodes, sense, formed, wpc>>

VARIABLES
    numWorkers,         \* WSI.numWorkers
    capacity,           \* capacity of clusterQueue
    workers,            \* calculateSenses: the worker threads (thread x has loop index x - 1)
    started,            \* calculateSenses: workers started so far
    mainPc,             \* position of the main thread in calculateSenses
    mainP,              \* calculateSenses: p
    mainGot,            \* the value progress.get() returned in the inner loop
    writerPc,           \* position of the ClusterWriter thread
    outFile,            \* records written to the cluster file, in order
    totalClusters,      \* the AtomicInteger totalClusters
    produced            \* clusters put on the queue by the workers, in order

sensesVars == <<numWorkers, capacity, workers, started, mainPc, mainP, mainGot,
                writerPc, outFile, totalClusters, produced>>

vars == <<loadVars, kernelVars, workerVars, sensesVars>>

notLoadVars == <<kernelVars, workerVars, sensesVars>>
notKernelVars == <<loadVars, workerVars, sensesVars>>
notWorkerVars == <<loadVars, kernelVars, sensesVars>>

\* ------------------------------------------- subsystems not yet started
NoEdge == [from |-> 0, to |-> 0, weight |-> 0]

\* new Graph(200000, 220)
LoaderInitialSize == 200000

\* The loader before it has been started.
LoadIdle ==
    /\ distributedGraph = NewGraph(LoaderInitialSize)
    /\ loadPc = "idle"
    /\ nread = 0
    /\ lastEdge = NoEdge

\* new Graph(): this(10, 10)
EgoInitialSize == 10

\* The clustering worker before it has been started.
WorkerIdle ==
    /\ maxEdges = 0 /\ maxConnectivity = 0 /\ maxIterations = 0 /\ minCluster = 0
    /\ batchStart = 0 /\ batchEnd = 0 /\ baseNode = 0
    /\ tokenGraph = NewGraph(EgoInitialSize)
    /\ z = 0 /\ changed = FALSE /\ sweeps = 0
    /\ fcNodes = {} /\ sense = 0
    /\ formed = <<>> /\ clusterQueue = <<>> /\ progress = 0
    /\ wpc = "idle"

\* calculateSenses before it has been called.
SensesIdle ==
    /\ numWorkers = 0 /\ capacity = 0
    /\ workers = <<>> /\ started = 0
    /\ mainPc = "idle" /\ mainP = 0 /\ mainGot = 0
    /\ writerPc = "idle"
    /\ outFile = <<>> /\ totalClusters = 0
    /\ produced = <<>>

\* The similarity kernel before it has been started.
KernelIdle ==
    /\ N_TOKENS = 0 /\ n = 0 /\ batch_size = 0 /\ index = 0
    /\ c_sim = <<>> /\ c_nearest = <<>> /\ edges = <<>>
    /\ i = 0 /\ j = 0 /\ offset = 0
    /\ k = 0 /\ size = 0 /\ from_i = 0 /\ to_i = 0
    /\ kpc = "idle"
    /\ written = {}

\* ------------------------------------------------- tokens_inner.pyx
MaxSize == 4
MaxScore == 3
MaxTokens == 3
MaxBatch == 2

Scores == 1..MaxScore

\* memcpy(c_nearest, nearest_temp, ...): nearest_temp[x] = x
nearest_temp(sz) == [x \in 0..(sz - 1) |-> x]

\* malloc'ed GraphEdge memory that has not been written
Unwritten == [from_index |-> 0 - 1, to_index |-> 0 - 1, weight |-> 0]

\* A variant of the swap without the store to nearest[r].
SwapOverwrite(nearest, r, w) == [nearest EXCEPT ![w] = nearest[r]]

\* temp = nearest[w]; nearest[w] = nearest[r]; nearest[r] = temp
Swap(nearest, r, w) ==
    [nearest EXCEPT ![w] = nearest[r], ![r] = nearest[w]]

\* A variant of the inner loop that moves the scores >= mid to the right.
RECURSIVE InnerLoopAscending(_, _, _, _, _)
InnerLoopAscending(nearest, similar, mid, r, w) ==
    IF r < w
    THEN IF similar[nearest[r]] >= mid
         THEN InnerLoopAscending(Swap(nearest, r, w), similar, mid, r, w - 1)
         ELSE InnerLoopAscending(nearest, similar, mid, r + 1, w)
    ELSE [nearest |-> nearest, r |-> r]

\* argpartition: while r < w
RECURSIVE InnerLoop(_, _, _, _, _)
InnerLoop(nearest, similar, mid, r, w) ==
    IF r < w
    THEN IF similar[nearest[r]] <= mid
         THEN InnerLoop(Swap(nearest, r, w), similar, mid, r, w - 1)
         ELSE InnerLoop(nearest, similar, mid, r + 1, w)
    ELSE [nearest |-> nearest, r |-> r]

\* argpartition called on its own: an index array in original order, any
\* scores, any k in 0..size; and the scores 0.9, 0.1, 0.5, 0.7, 0.2 (times
\* ten) with k = 2.
PartitionInit ==
    /\ SensesIdle
    /\ LoadIdle
    /\ WorkerIdle
    /\ N_TOKENS = 0 /\ n = 0 /\ batch_size = 0 /\ index = 0
    /\ edges = <<>> /\ i = 0 /\ j = 0 /\ offset = 0 /\ written = {}
    /\ \/ /\ size \in 1..MaxSize
          /\ c_sim \in [0..(size - 1) -> Scores]
          /\ k \in 0..size
       \/ /\ size = 5
          /\ c_sim = [x \in 0..4 |-> CASE x = 0 -> 9 [] x = 1 -> 1 [] x = 2 -> 5
                                        [] x = 3 -> 7 [] OTHER -> 2]
          /\ k = 2
    /\ c_nearest = nearest_temp(size)
    /\ from_i = 0
    /\ to_i = size - 1
    /\ kpc = "partition"

\* One round of argpartition's outer loop (while from_i < to_i).
PartitionStep ==
    /\ kpc = "partition"
    /\ from_i < to_i
    /\ LET mid == c_sim[c_nearest[(from_i + to_i) \div 2]]
           res == InnerLoop(c_nearest, c_sim, mid, from_i, to_i)
           r   == IF c_sim[res.nearest[res.r]] < mid THEN res.r - 1 ELSE res.r
       IN  /\ c_nearest' = res.nearest
           /\ IF k <= r
              THEN to_i' = r /\ UNCHANGED from_i
              ELSE from_i' = r + 1 /\ UNCHANGED to_i
    /\ UNCHANGED <<c_sim, k, size, kpc, calcVars>>
    /\ UNCHANGED notKernelVars

\* argpartition returns when from_i >= to_i.
PartitionReturn ==
    /\ kpc = "partition"
    /\ from_i >= to_i
    /\ kpc' = "partitioned"
    /\ UNCHANGED <<partVars, calcVars>>
    /\ UNCHANGED notKernelVars

PartitionNext == PartitionStep \/ PartitionReturn

\* argpartition called with any index array: entries in 0..size-1 in any
\* order, repeated entries included, any scores, any k in 0..size.
AnySize == 3
PartitionAnyInit ==
    /\ SensesIdle
    /\ LoadIdle
    /\ WorkerIdle
    /\ N_TOKENS = 0 /\ n = 0 /\ batch_size = 0 /\ index = 0
    /\ edges = <<>> /\ i = 0 /\ j = 0 /\ offset = 0 /\ written = {}
    /\ size \in 1..AnySize
    /\ c_sim \in [0..(size - 1) -> Scores]
    /\ k \in 0..size
    /\ c_nearest \in [0..(size - 1) -> 0..(size - 1)]
    /\ from_i = 0
    /\ to_i = size - 1
    /\ kpc = "partition"

\* -------------------------------------------- calculate_edges (one batch)
\* cdef int num_batches = N_TOKENS / batch_size + 1
num_batches(N, B) == (N \div B) + 1

start_index == index * batch_size
end_index == Min((index + 1) * batch_size, N_TOKENS)

\* The first slot of the token's n output slots, and the slot range of the
\* whole edges array.
TokenBase(t) == t * n
EdgeSlots == 0..(N_TOKENS * n - 1)

\* export_distributed_graph starts calculate_edges(index, ...) for one of
\* its batches; edges is freshly malloc'ed.
CalcInit ==
    /\ SensesIdle
    /\ LoadIdle
    /\ WorkerIdle
    /\ N_TOKENS \in 2..MaxTokens
    /\ n \in 1..(N_TOKENS - 1)
    /\ batch_size \in 1..MaxBatch
    /\ index \in 0..(num_batches(N_TOKENS, batch_size) - 1)
    /\ edges = [x \in EdgeSlots |-> Unwritten]
    /\ c_sim = <<>> /\ c_nearest = <<>>
    /\ i = 0 /\ j = 0 /\ offset = 0
    /\ k = 0 /\ size = 0 /\ from_i = 0 /\ to_i = 0
    /\ written = {}
    /\ kpc = "entry"

\* if start_index >= N_TOKENS: return
EnterEmptyBatch ==
    /\ kpc = "entry"
    /\ start_index >= N_TOKENS
    /\ kpc' = "done"
    /\ UNCHANGED <<partVars, calcVars>>
    /\ UNCHANGED notKernelVars

\* The vector copy and blas_dotm fill c_similar; the row loop starts.
EnterBatch ==
    /\ kpc = "entry"
    /\ start_index < N_TOKENS
    /\ i' = 0
    /\ kpc' = "row"
    /\ UNCHANGED <<partVars, N_TOKENS, n, batch_size, index, edges, j, offset, written>>
    /\ UNCHANGED notKernelVars

\* Row i of the batch: c_nearest reset to the original order, the row of
\* c_similar (any scores) copied into c_sim, and
\* argpartition(c_nearest, c_sim, n+1, N_TOKENS) entered.
RowStart ==
    /\ kpc = "row"
    /\ i < Min(batch_size, end_index - start_index)
    /\ c_nearest' = nearest_temp(N_TOKENS)
    /\ c_sim' \in [0..(N_TOKENS - 1) -> Scores]
    /\ k' = n + 1
    /\ size' = N_TOKENS
    /\ from_i' = 0
    /\ to_i' = N_TOKENS - 1
    /\ written' = {}
    /\ kpc' = "partition"
    /\ UNCHANGED <<N_TOKENS, n, batch_size, index, edges, i, j, offset>>
    /\ UNCHANGED notKernelVars

\* offset = 0, and the loop "for j in range(n+1)" starts.
EmitStart ==
    /\ kpc = "partitioned"
    /\ offset' = 0
    /\ j' = 0
    /\ kpc' = "emit"
    /\ UNCHANGED <<partVars, N_TOKENS, n, batch_size, index, edges, i, written>>
    /\ UNCHANGED notKernelVars

\* The slot the loop body writes for position j.
EmitOffset == IF c_nearest[j] = start_index + i THEN 0 - 1 ELSE offset
EmitSlot == (start_index + i) * n + j + EmitOffset

\* One round of the loop over j whose slot lies inside the edges array.
WriteEdge ==
    /\ kpc = "emit"
    /\ j < n + 1
    /\ j < N_TOKENS
    /\ EmitSlot \in EdgeSlots
    /\ offset' = EmitOffset
    /\ edges' = [edges EXCEPT ![EmitSlot] =
                    [from_index |-> start_index + i,
                     to_index   |-> c_nearest[j],
                     weight     |-> c_sim[c_nearest[j]]]]
    /\ written' = written \cup {EmitSlot}
    /\ j' = j + 1
    /\ UNCHANGED <<partVars, N_TOKENS, n, batch_size, index, i, kpc>>
    /\ UNCHANGED notKernelVars

\* One round of the loop over j whose slot lies outside the malloc'ed
\* array: the store is undefined behaviour; the process goes on with the
\* array as it was, or dies.
WriteEdgeOutside ==
    /\ kpc = "emit"
    /\ j < n + 1
    /\ j < N_TOKENS
    /\ EmitSlot \notin EdgeSlots
    /\ offset' = EmitOffset
    /\ written' = written \cup {EmitSlot}
    /\ j' = j + 1
    /\ kpc' \in {"emit", "crashed"}
    /\ UNCHANGED <<partVars, N_TOKENS, n, batch_size, index, edges, i>>
    /\ UNCHANGED notKernelVars

\* The loop over j has ended for row i.
EmitEnd ==
    /\ kpc = "emit"
    /\ j >= n + 1
    /\ kpc' = "emitted"
    /\ UNCHANGED <<partVars, calcVars>>
    /\ UNCHANGED notKernelVars

\* The row loop goes on with i + 1.
NextRow ==
    /\ kpc = "emitted"
    /\ i' = i + 1
    /\ kpc' = "row"
    /\ UNCHANGED <<partVars, N_TOKENS, n, batch_size, index, edges, j, offset, written>>
    /\ UNCHANGED notKernelVars

\* The row loop has ended: calculate_edges returns.
CalcReturn ==
    /\ kpc = "row"
    /\ i >= Min(batch_size, end_index - start_index)
    /\ kpc' = "done"
    /\ UNCHANGED <<partVars, calcVars>>
    /\ UNCHANGED notKernelVars

CalcNext ==
    \/ EnterEmptyBatch \/ EnterBatch \/ RowStart
    \/ PartitionStep \/ PartitionReturn
    \/ EmitStart \/ WriteEdge \/ WriteEdgeOutside \/ EmitEnd
    \/ NextRow \/ CalcReturn

\* export_distributed_graph with fewer than n + 1 tokens.
CalcFewInit ==
    /\ SensesIdle
    /\ LoadIdle
    /\ WorkerIdle
    /\ N_TOKENS \in 1..MaxTokens
    /\ n \in N_TOKENS..MaxTokens
    /\ batch_size \in 1..MaxBatch
    /\ index \in 0..(num_batches(N_TOKENS, batch_size) - 1)
    /\ edges = [x \in EdgeSlots |-> Unwritten]
    /\ c_sim = <<>> /\ c_nearest = <<>>
    /\ i = 0 /\ j = 0 /\ offset = 0
    /\ k = 0 /\ size = 0 /\ from_i = 0 /\ to_i = 0
    /\ written = {}
    /\ kpc = "entry"

\* What a read past the end of a malloc'ed array of token indexes can yield:
\* a token index, or a value that is none.
StrayIndexes == (0 - 1)..N_TOKENS

\* One round of the loop over j with j >= N_TOKENS: to_index = c_nearest[j]
\* reads past the N_TOKENS entries of c_nearest, which is undefined
\* behaviour; the read yields some value and the three stores follow, or
\* the process dies. c_sim[to_index] is an entry of c_sim or, for a value
\* that is no token index, another stray read.
ReadNearestOutside ==
    /\ kpc = "emit"
    /\ j < n + 1
    /\ j >= N_TOKENS
    /\ \E got \in StrayIndexes, stray \in Scores :
          LET off  == IF got = start_index + i THEN 0 - 1 ELSE offset
              slot == (start_index + i) * n + j + off
              wt   == IF got \in DOMAIN c_sim THEN c_sim[got] ELSE stray
          IN  /\ offset' = off
              /\ edges' = IF slot \in EdgeSlots
                           THEN [edges EXCEPT ![slot] =
                                    [from_index |-> start_index + i,
                                     to_index   |-> got,
                                     weight     |-> wt]]
                           ELSE edges
              /\ written' = written \cup {slot}
    /\ j' = j + 1
    /\ kpc' \in {"emit", "crashed"}
    /\ UNCHANGED <<partVars, N_TOKENS, n, batch_size, index, i>>
    /\ UNCHANGED notKernelVars

CalcFewNext == CalcNext \/ ReadNearestOutside

\* ------------------------------------------------------------ WSI.Worker
MaxNbr == 3
MaxIterations == 2
MaxMinCluster == 2
TruncatedLimit == 2
WorkerBatch == 1

\* WSI(infile, outfile): this(infile, outfile, 200, 200, 100, 5, 4)
DefaultMaxEdges == 200
DefaultMaxIterations == 100

\* new ArrayBlockingQueue<Cluster>(1024)
QueueCapacity == 1024

\* chineseWhispers: float max = -10000f
InitialMax == 0 - 10000

\* WSI.loadDistributedGraph followed by sortEdges, on the triples of file.
RECURSIVE loadDistributedGraph(_, _)
loadDistributedGraph(file, m) ==
    IF m = 0 THEN NewGraph(LoaderInitialSize)
    ELSE LET g == loadDistributedGraph(file, m - 1)
         IN  \* the graph of the first m - 1 triples is computed first, as
             \* the loop does; its size is never negative
             IF g.size < 0 THEN g
             ELSE addEdge(g, file[m].from, file[m].to, file[m].weight,
                          SameBoxed(file[m].from, file[m].to))

loadGraph(file) == sortEdges(loadDistributedGraph(file, Len(file)))

\* Edge files of the clustering runs: token 0 lists every token 1..MaxNbr,
\* and any set of pairs among 1..MaxNbr follows in token order; the weight of
\* a pair rotates through 1..MaxWeight with the sum of its ids.
NbrPairs == {pr \in (1..MaxNbr) \X (1..MaxNbr) : pr[1] < pr[2]}
FileWeight(u, v) == 1 + ((u + v) % MaxWeight)

RECURSIVE PairTriples(_)
PairTriples(S) ==
    IF S = {} THEN <<>>
    ELSE LET lo == CHOOSE a \in S : \A b \in S :
                      a[1] < b[1] \/ (a[1] = b[1] /\ a[2] <= b[2])
         IN  <<[from |-> lo[1], to |-> lo[2], weight |-> FileWeight(lo[1], lo[2])]>>
                 \o PairTriples(S \ {lo})

EdgeFile(S) ==
    [x \in 1..MaxNbr |-> [from |-> 0, to |-> x, weight |-> FileWeight(0, x)]]
        \o PairTriples(S)

\* An edge file with five neighbors of token 0: the pair 1-2 and the path
\* 3 - 4 - BigNode.
TwoSenseFile ==
    << [from |-> 0, to |-> 1, weight |-> 1], [from |-> 0, to |-> 2, weight |-> 1],
       [from |-> 0, to |-> 3, weight |-> 1], [from |-> 0, to |-> 4, weight |-> 1],
       [from |-> 0, to |-> BigNode, weight |-> 1],
       [from |-> 1, to |-> 2, weight |-> 1], [from |-> 3, to |-> 4, weight |-> 1],
       [from |-> 4, to |-> BigNode, weight |-> 1] >>

\* An edge file in which token 0 lists tokens 1, 2, 3 and these three list
\* each other with the weights 0.5 (1-2), 0.7 (2-3) and 0.6 (1-3), written
\* in tenths.
TriangleFile(bw) ==
    << [from |-> 0, to |-> 1, weight |-> bw[1]], [from |-> 0, to |-> 2, weight |-> bw[2]],
       [from |-> 0, to |-> 3, weight |-> bw[3]],
       [from |-> 1, to |-> 2, weight |-> 5], [from |-> 1, to |-> 3, weight |-> 6],
       [from |-> 2, to |-> 3, weight |-> 7] >>

\* An edge file in which the only neighbor of token 0 is BigNode, followed
\* by a triple from BigNode to itself.
SelfLoopFile ==
    << [from |-> 0, to |-> BigNode, weight |-> 1],
       [from |-> BigNode, to |-> BigNode, weight |-> 1] >>

\* createTokenGraph: the loop over the first maxConnectivity edges of
\* neighbor, from position p on.
RECURSIVE ForeignLoop(_, _, _, _, _, _)
ForeignLoop(graph, G, node, neighbor, p, mC) ==
    LET foreignNeighbors == getEdges(G, neighbor)
    IN  IF p > Min(mC, Len(foreignNeighbors)) THEN graph
        ELSE LET foreignNeighbor == foreignNeighbors[p].node
                 weight == foreignNeighbors[p].weight
                 neighborsSet == SeqToSet(getNeighbors(G, node))
                 g1 == IF foreignNeighbor # node /\ foreignNeighbor \in neighborsSet
                       THEN addEdge(graph, neighbor, foreignNeighbor, weight,
                                    SameBoxed(neighbor, foreignNeighbor))
                       ELSE graph
             IN  ForeignLoop(g1, G, node, neighbor, p + 1, mC)

\* createTokenGraph: the loop over the first maxEdges neighbors of node.
RECURSIVE NeighborLoop(_, _, _, _, _, _)
NeighborLoop(graph, G, node, p, mE, mC) ==
    LET neighbors == getNeighbors(G, node)
    IN  IF p > Min(mE, Len(neighbors)) THEN graph
        ELSE NeighborLoop(ForeignLoop(graph, G, node, neighbors[p], 1, mC),
                          G, node, p + 1, mE, mC)

\* Worker.createTokenGraph
createTokenGraph(G, node, mE, mC) ==
    NeighborLoop(NewGraph(EgoInitialSize), G, node, 1, mE, mC)

\* A variant of the initialization that numbers the classes from 0.
RECURSIVE InitClassesFromZero(_, _, _)
InitClassesFromZero(g, nodeList, p) ==
    IF p > Len(nodeList) THEN g
    ELSE InitClassesFromZero(setNodeClass(g, nodeList[p], Box(p - 1)), nodeList, p + 1)

\* chineseWhispers: class p for the p-th node of getNodes().
RECURSIVE InitClasses(_, _, _)
InitClasses(g, nodeList, p) ==
    IF p > Len(nodeList) THEN g
    ELSE InitClasses(setNodeClass(g, nodeList[p], Box(p)), nodeList, p + 1)

\* chineseWhispers: the map classes after the edges 1..p of node: the
\* summed weight per class of the neighbors.
RECURSIVE ClassSums(_, _, _)
ClassSums(g, node, p) ==
    IF p = 0 THEN <<>>
    ELSE LET classes == ClassSums(g, node, p - 1)
             e == getEdges(g, node)[p]
             cls == getNodeClass(g, e.node)
             old == {q \in 1..Len(classes) : classes[q].cls = cls}
         IN  IF old # {}
             THEN [q \in 1..Len(classes) |->
                     IF q \in old
                     THEN [cls |-> cls, sum |-> classes[q].sum + e.weight]
                     ELSE classes[q]]
             ELSE Append(classes, [cls |-> cls, sum |-> e.weight])

\* classes.keySet() of a HashMap<Integer, Float> whose keys are below its 16
\* buckets: ascending key order.
RECURSIVE KeyOrder(_)
KeyOrder(entries) ==
    IF entries = {} THEN <<>>
    ELSE LET lo == CHOOSE a \in entries : \A b \in entries : a.cls[1] <= b.cls[1]
         IN  <<lo>> \o KeyOrder(entries \ {lo})

\* chineseWhispers: the loop over classes.keySet() from position p on.
RECURSIVE MaxClassLoop(_, _, _, _)
MaxClassLoop(keys, p, max, maxClass) ==
    IF p > Len(keys) THEN maxClass
    ELSE IF keys[p].sum > max
         THEN MaxClassLoop(keys, p + 1, keys[p].sum, keys[p].cls)
         ELSE MaxClassLoop(keys, p + 1, max, maxClass)

\* A variant of the loop body that leaves every class as it is.
UpdateNodeKeep(st, node) == st

\* chineseWhispers: the body of the loop over the shuffled nodes.
UpdateNode(st, node) ==
    LET g == st.graph
        classes == ClassSums(g, node, Len(getEdges(g, node)))
        maxClass == MaxClassLoop(KeyOrder(SeqToSet(classes)), 1, InitialMax, Box(0))
    IN  IF getNodeClass(g, node) # maxClass
        THEN [graph |-> setNodeClass(g, node, maxClass), changed |-> TRUE]
        ELSE st

\* chineseWhispers: one sweep over the nodes in the order of the shuffled
\* list, from position p on.
RECURSIVE Sweep(_, _, _)
Sweep(st, shuffled, p) ==
    IF p > Len(shuffled) THEN st
    ELSE Sweep(UpdateNode(st, shuffled[p]), shuffled, p + 1)

\* Collections.shuffle(nodes): any order of the nodes.
RECURSIVE Shuffles(_)
Shuffles(S) ==
    IF S = {} THEN {<<>>}
    ELSE UNION {{<<x>> \o rest : rest \in Shuffles(S \ {x})} : x \in S}

\* A variant of the loop condition without the iteration cap.
LoopContinuesUncapped(zz, cap, ch) == ch

\* A variant of the loop condition that allows one sweep only.
LoopContinuesOnce(zz, cap, ch) == zz < cap /\ zz < 1

\* chineseWhispers: for (z = 0; z < maxIterations; z++) { if (!changed) break;
LoopContinues(zz, cap, ch) == zz < cap /\ ch

\* java.util.HashMap: the table of 16 buckets of a map or set of at most
\* twelve entries.
HashBuckets == 16

\* findClusters: the node that "for (Integer node : nodes)" yields first.  A
\* HashSet<Integer> is walked bucket by bucket (the id modulo the table
\* length), and within a bucket in insertion order, which is the ascending
\* order of getNodes().
FirstInHashOrder(S) ==
    CHOOSE x \in S : \A y \in S :
        \/ x % HashBuckets < y % HashBuckets
        \/ (x % HashBuckets = y % HashBuckets /\ x <= y)

\* A variant of the weight lookup that reads the member's own first edge.
WeightOfOwnEdge(G, base, node) ==
    IF G.edgeWeights[node] = <<>> THEN Null ELSE Box(G.edgeWeights[node][1])

\* findClusters: weights.get(node), from the map built over the edges of
\* baseNode in the distributed graph (a later entry replaces an earlier).
WeightOf(G, base, node) ==
    LET hits == {p \in 1..Len(G.edgeSources[base]) : G.edgeSources[base][p] = node}
    IN  IF hits = {} THEN Null
        ELSE Box(G.edgeWeights[base][CHOOSE p \in hits : \A q \in hits : p >= q])

\* A variant of the cluster that receives one of the matching nodes only.
NewClusterOneMember(node, s, memberNodes, G) ==
    [node    |-> node,
     sense   |-> s,
     members |-> {[node |-> x, weight |-> WeightOf(G, node, x)] :
                    x \in {y \in memberNodes : y = FirstInHashOrder(memberNodes)}}]

\* new Cluster(baseNode, sense) and its addMember calls
NewCluster(node, s, memberNodes, G) ==
    [node    |-> node,
     sense   |-> s,
     members |-> {[node |-> x, weight |-> WeightOf(G, node, x)] : x \in memberNodes}]

\* A variant of the size test that lets a cluster one short pass.
MeetsMinimumOffByOne(cluster, minSize) == Cardinality(cluster.members) >= minSize - 1

\* findClusters: cluster.getMembers().size() >= this.minCluster
MeetsMinimum(cluster, minSize) == Cardinality(cluster.members) >= minSize

\* A variant of the sense update that keeps the sense id.
SenseAfterPutSame(s) == s

\* findClusters: sense++
SenseAfterPut(s) == s + 1

\* A worker is constructed for a batch of a loaded and sorted graph.
WorkerInit ==
    /\ SensesIdle
    /\ KernelIdle
    /\ \/ /\ \E S \in SUBSET NbrPairs :
                distributedGraph = loadGraph(EdgeFile(S))
          /\ maxIterations \in 0..MaxIterations
          /\ minCluster \in 1..MaxMinCluster
          /\ \E limits \in {<<DefaultMaxEdges, DefaultMaxEdges>>,
                             <<TruncatedLimit, DefaultMaxEdges>>,
                             <<DefaultMaxEdges, TruncatedLimit>>} :
                /\ maxEdges = limits[1]
                /\ maxConnectivity = limits[2]
          /\ batchStart \in 0..MaxNbr
          /\ batchEnd \in (batchStart + 1)..Min(batchStart + WorkerBatch, MaxNbr + 1)
       \/ /\ distributedGraph = loadGraph(TwoSenseFile)
          /\ maxIterations = 1
          /\ minCluster = 2
          /\ maxEdges = DefaultMaxEdges
          /\ maxConnectivity = DefaultMaxEdges
          /\ batchStart = 0
          /\ batchEnd = 1
       \/ /\ \E bw \in [1..3 -> Weights] :
                distributedGraph = loadGraph(TriangleFile(bw))
          /\ maxIterations = DefaultMaxIterations
          /\ minCluster \in 1..(MaxMinCluster + 2)
          /\ maxEdges = DefaultMaxEdges
          /\ maxConnectivity = DefaultMaxEdges
          /\ batchStart = 0
          /\ batchEnd = 1
       \/ /\ distributedGraph = loadGraph(SelfLoopFile)
          /\ maxIterations \in 0..MaxIterations
          /\ minCluster \in 1..MaxMinCluster
          /\ maxEdges = DefaultMaxEdges
          /\ maxConnectivity = DefaultMaxEdges
          /\ batchStart = 0
          /\ batchEnd = 1
    /\ loadPc = "sorted"
    /\ nread = 0
    /\ lastEdge = NoEdge
    /\ baseNode = batchStart
    /\ tokenGraph = NewGraph(EgoInitialSize)
    /\ z = 0 /\ changed = FALSE /\ sweeps = 0
    /\ fcNodes = {} /\ sense = 0
    /\ formed = <<>> /\ clusterQueue = <<>> /\ progress = 0
    /\ wpc = "run"

\* Worker.run: Graph graph = createTokenGraph(i)
CreateTokenGraph ==
    /\ wpc = "run"
    /\ baseNode < batchEnd
    /\ tokenGraph' = createTokenGraph(distributedGraph, baseNode, maxEdges, maxConnectivity)
    /\ sweeps' = 0
    /\ formed' = <<>>
    /\ wpc' = "classes"
    /\ UNCHANGED <<paramVars, baseNode, z, changed, fcNodes, sense, clusterQueue, progress>>
    /\ UNCHANGED notWorkerVars

\* chineseWhispers: the classes 1, 2, ... are assigned; changed = true
InitializeClasses ==
    /\ wpc = "classes"
    /\ tokenGraph' = InitClasses(tokenGraph, getNodes(tokenGraph), 1)
    /\ changed' = TRUE
    /\ z' = 0
    /\ wpc' = "whispers"
    /\ UNCHANGED <<paramVars, baseNode, sweeps, fcNodes, sense, formed, clusterQueue, progress>>
    /\ UNCHANGED notWorkerVars

\* chineseWhispers: one round of the loop over z, with some shuffle.
SweepNodes ==
    /\ wpc = "whispers"
    /\ LoopContinues(z, maxIterations, changed)
    /\ \E shuffled \in Shuffles(SeqToSet(getNodes(tokenGraph))) :
          LET st == Sweep([graph |-> tokenGraph, changed |-> FALSE], shuffled, 1)
          IN  /\ tokenGraph' = st.graph
              /\ changed' = st.changed
    /\ z' = z + 1
    /\ sweeps' = sweeps + 1
    /\ UNCHANGED <<paramVars, baseNode, fcNodes, sense, formed, clusterQueue, progress, wpc>>
    /\ UNCHANGED notWorkerVars

\* chineseWhispers returns; findClusters copies the nodes and sets sense = 0.
WhispersReturn ==
    /\ wpc = "whispers"
    /\ ~LoopContinues(z, maxIterations, changed)
    /\ fcNodes' = SeqToSet(getNodes(tokenGraph))
    /\ sense' = 0
    /\ wpc' = "clusters"
    /\ UNCHANGED <<paramVars, baseNode, tokenGraph, z, changed, sweeps, formed,
                   clusterQueue, progress>>
    /\ UNCHANGED notWorkerVars

\* findClusters: one round of the while loop.  The class of the node the
\* iteration yields first becomes currentClass; the cluster is put on the
\* queue when it meets the minimum size (put waits for space; no thread of
\* the program interrupts a worker, so put returns normally).
ClusterRound ==
    /\ wpc = "clusters"
    /\ fcNodes # {}
    /\ LET first == FirstInHashOrder(fcNodes)
           currentClass == getNodeClass(tokenGraph, first)
           toRemove == {x \in fcNodes : getNodeClass(tokenGraph, x) = currentClass}
           cluster == NewCluster(baseNode, sense, toRemove, distributedGraph)
       IN  /\ fcNodes' = fcNodes \ toRemove
           /\ IF MeetsMinimum(cluster, minCluster)
              THEN /\ Len(clusterQueue) < QueueCapacity
                   /\ sense' = SenseAfterPut(sense)
                   /\ clusterQueue' = Append(clusterQueue, cluster)
                   /\ formed' = Append(formed, [cluster |-> cluster, put |-> TRUE])
              ELSE /\ formed' = Append(formed, [cluster |-> cluster, put |-> FALSE])
                   /\ UNCHANGED <<sense, clusterQueue>>
    /\ UNCHANGED <<paramVars, baseNode, tokenGraph, z, changed, sweeps, progress, wpc>>
    /\ UNCHANGED notWorkerVars

\* findClusters returns; this.progress.incrementAndGet(); i++
FindClustersReturn ==
    /\ wpc = "clusters"
    /\ fcNodes = {}
    /\ progress' = progress + 1
    /\ baseNode' = baseNode + 1
    /\ wpc' = "run"
    /\ UNCHANGED <<paramVars, tokenGraph, z, changed, sweeps, fcNodes, sense, formed,
                   clusterQueue>>
    /\ UNCHANGED notWorkerVars

\* Worker.run: the loop over the batch has ended.
WorkerReturn ==
    /\ wpc = "run"
    /\ baseNode >= batchEnd
    /\ wpc' = "done"
    /\ UNCHANGED <<paramVars, baseNode, tokenGraph, z, changed, sweeps, fcNodes, sense,
                   formed, clusterQueue, progress>>
    /\ UNCHANGED notWorkerVars

WorkerNext ==
    \/ CreateTokenGraph \/ InitializeClasses \/ SweepNodes \/ WhispersReturn
    \/ ClusterRound \/ FindClustersReturn \/ WorkerReturn

\* ------------------------------------------------- WSI.calculateSenses
MaxWorkers == 2
SensesNbr == 2
SmallCapacity == 1

\* Edge files of the runs of calculateSenses: token 0 lists the tokens 1..m,
\* and the pairs S among 1..m follow (none of them, or the pair of the
\* tokens 1 and 2).
SensesPairs(m) == {pr \in (1..m) \X (1..m) : pr[1] < pr[2]}
SensesFile(m, S) ==
    [x \in 1..m |-> [from |-> 0, to |-> x, weight |-> FileWeight(0, x)]]
        \o PairTriples(S)

\* Worker.chineseWhispers from round zz of its loop on, where round y uses
\* the shuffle shuffles[y + 1]: the graph it returns with.
RECURSIVE chineseWhispers(_, _, _, _, _)
chineseWhispers(g, zz, ch, cap, shuffles) ==
    IF ~LoopContinues(zz, cap, ch) THEN g
    ELSE LET st == Sweep([graph |-> g, changed |-> FALSE], shuffles[zz + 1], 1)
         IN  chineseWhispers(st.graph, zz + 1, st.changed, cap, shuffles)

\* Worker.findClusters from sense s and the remaining nodes on: the clusters
\* it puts on the queue, in order.
RECURSIVE findClusters(_, _, _, _, _, _)
findClusters(G, base, tg, nodes, s, minSize) ==
    IF nodes = {} THEN <<>>
    ELSE LET first == FirstInHashOrder(nodes)
             currentClass == getNodeClass(tg, first)
             toRemove == {x \in nodes : getNodeClass(tg, x) = currentClass}
             cluster == NewCluster(base, s, toRemove, G)
         IN  IF MeetsMinimum(cluster, minSize)
             THEN <<cluster>> \o findClusters(G, base, tg, nodes \ toRemove,
                                              SenseAfterPut(s), minSize)
             ELSE findClusters(G, base, tg, nodes \ toRemove, s, minSize)

\* new Cluster(-1, -1)
Sentinel == [node |-> 0 - 1, sense |-> 0 - 1, members |-> {}]

\* A variant of the writer's test that takes no cluster for the last one.
IsSentinelNever(cluster) == FALSE

\* ClusterWriter.run: cluster.getNode() == -1
IsSentinel(cluster) == cluster.node = 0 - 1

\* ArrayBlockingQueue.put waits while the queue is full.
CanPut(queue, cap) == Len(queue) < cap

\* A variant of put that inserts at the head of the queue.
EnqueueFront(queue, cluster) == <<cluster>> \o queue

\* ArrayBlockingQueue.put: insert at the tail.
Enqueue(queue, cluster) == Append(queue, cluster)

\* A variant of take that leaves the head in the queue.
DequeueKeep(queue) == queue

\* ArrayBlockingQueue.take: remove the head.
Dequeue(queue) == Tail(queue)

\* int batchSize = distributedGraph.getSize() / numWorkers
batchSize == getSize(distributedGraph) \div numWorkers

\* int batchStart = i * batchSize
BatchStartOf(x) == x * batchSize

\* A variant of the range end without the extension of the last range.
BatchEndNoRemainder(x) == (x + 1) * batchSize

\* int batchEnd = i == numWorkers - 1 ? getSize() : (i + 1) * batchSize
BatchEndOf(x) ==
    IF x = numWorkers - 1 THEN getSize(distributedGraph) ELSE (x + 1) * batchSize

\* A Worker object before its thread is started.
NewWorker == [batchStart |-> 0, batchEnd |-> 0, node |-> 0, pending |-> <<>>, pc |-> "new"]

\* calculateSenses is entered with a loaded and sorted graph.
SensesInit ==
    /\ KernelIdle
    /\ \E m \in 0..SensesNbr : \E S \in {{}, SensesPairs(m) \cap {<<1, 2>>}} :
          distributedGraph = loadGraph(SensesFile(m, S))
    /\ loadPc = "sorted" /\ nread = 0 /\ lastEdge = NoEdge
    /\ maxEdges = DefaultMaxEdges
    /\ maxConnectivity = DefaultMaxEdges
    /\ maxIterations \in {0, 1}
    /\ minCluster = 1
    /\ batchStart = 0 /\ batchEnd = 0 /\ baseNode = 0
    /\ tokenGraph = NewGraph(EgoInitialSize)
    /\ z = 0 /\ changed = FALSE /\ sweeps = 0
    /\ fcNodes = {} /\ sense = 0 /\ formed = <<>>
    /\ wpc = "idle"
    /\ clusterQueue = <<>>
    /\ progress = 0
    /\ numWorkers \in 1..MaxWorkers
    /\ capacity \in {SmallCapacity, QueueCapacity}
    /\ workers = [x \in 1..numWorkers |-> NewWorker]
    /\ started = 0
    /\ mainPc = "start" /\ mainP = 0 /\ mainGot = 0
    /\ writerPc = "new"
    /\ outFile = <<>> /\ totalClusters = 0
    /\ produced = <<>>

sharedUnchanged == <<loadVars, kernelVars, paramVars, workerLocalVars, numWorkers, capacity>>

\* calculateSenses: one round of the loop that starts the workers.
StartWorker ==
    /\ mainPc = "start"
    /\ started < numWorkers
    /\ workers' = [workers EXCEPT ![started + 1] =
            [batchStart |-> BatchStartOf(started), batchEnd |-> BatchEndOf(started),
             node |-> BatchStartOf(started), pending |-> <<>>, pc |-> "run"]]
    /\ started' = started + 1
    /\ UNCHANGED <<sharedUnchanged, clusterQueue, progress, mainPc, mainP, mainGot,
                   writerPc, outFile, totalClusters, produced>>

\* calculateSenses: writerThread.start()
StartWriter ==
    /\ mainPc = "start"
    /\ started = numWorkers
    /\ writerPc' = "take"
    /\ mainPc' = "poll"
    /\ UNCHANGED <<sharedUnchanged, clusterQueue, progress, workers, started, mainP,
                   mainGot, outFile, totalClusters, produced>>

\* calculateSenses: while (progress.get() < this.distributedGraph.getSize())
PollTest ==
    /\ mainPc = "poll"
    /\ mainPc' = IF progress < getSize(distributedGraph) THEN "read" ELSE "join"
    /\ UNCHANGED <<sharedUnchanged, clusterQueue, progress, workers, started, mainP,
                   mainGot, writerPc, outFile, totalClusters, produced>>

\* calculateSenses: int p = progress.get()
PollRead ==
    /\ mainPc = "read"
    /\ mainP' = progress
    /\ mainPc' = "spin"
    /\ UNCHANGED <<sharedUnchanged, clusterQueue, progress, workers, started, mainGot,
                   writerPc, outFile, totalClusters, produced>>

\* calculateSenses: progress.get() in while (progress.get() == p) { }
SpinRead ==
    /\ mainPc = "spin"
    /\ mainGot' = progress
    /\ mainPc' = "compare"
    /\ UNCHANGED <<sharedUnchanged, clusterQueue, progress, workers, started, mainP,
                   writerPc, outFile, totalClusters, produced>>

\* calculateSenses: the comparison in while (progress.get() == p) { }; the
\* value read is dropped, and p goes out of scope when the body of the outer
\* loop ends.
SpinTest ==
    /\ mainPc = "compare"
    /\ mainPc' = IF mainGot = mainP THEN "spin" ELSE "poll"
    /\ mainP' = IF mainGot = mainP THEN mainP ELSE 0
    /\ mainGot' = 0
    /\ UNCHANGED <<sharedUnchanged, clusterQueue, progress, workers, started,
                   writerPc, outFile, totalClusters, produced>>

\* A variant of the join that does not wait for the workers.
JoinWorkersNoWait ==
    /\ mainPc = "join"
    /\ mainPc' = "sentinel"
    /\ UNCHANGED <<sharedUnchanged, clusterQueue, progress, workers, started, mainP,
                   mainGot, writerPc, outFile, totalClusters, produced>>

\* calculateSenses: worker.join() for every worker
JoinWorkers ==
    /\ mainPc = "join"
    /\ \A x \in DOMAIN workers : workers[x].pc = "done"
    /\ mainPc' = "sentinel"
    /\ UNCHANGED <<sharedUnchanged, clusterQueue, progress, workers, started, mainP,
                   mainGot, writerPc, outFile, totalClusters, produced>>

\* calculateSenses: clusterQueue.put(new Cluster(-1, -1))
PutSentinel ==
    /\ mainPc = "sentinel"
    /\ CanPut(clusterQueue, capacity)
    /\ clusterQueue' = Enqueue(clusterQueue, Sentinel)
    /\ mainPc' = "join_writer"
    /\ UNCHANGED <<sharedUnchanged, progress, workers, started, mainP, mainGot,
                   writerPc, outFile, totalClusters, produced>>

\* calculateSenses: writerThread.join() and return
JoinWriter ==
    /\ mainPc = "join_writer"
    /\ writerPc = "exited"
    /\ mainPc' = "returned"
    /\ UNCHANGED <<sharedUnchanged, clusterQueue, progress, workers, started, mainP,
                   mainGot, writerPc, outFile, totalClusters, produced>>

MainNext ==
    \/ StartWorker \/ StartWriter \/ PollTest \/ PollRead \/ SpinRead \/ SpinTest
    \/ JoinWorkers \/ PutSentinel \/ JoinWriter

\* A variant in which the labels of the ego network are written to the loaded
\* graph.
LoadedGraphLabelled(G, tg) == [G EXCEPT !.nodeClasses = tg.nodeClasses]

\* The loaded graph after createTokenGraph, chineseWhispers and findClusters
\* for one base node with the ego network tg: they call getNeighbors and
\* getEdges on it, and write to tg and to fresh lists only.
LoadedGraphAfter(G, tg) == G

\* Worker.run of worker x: createTokenGraph, chineseWhispers and the rounds
\* of findClusters for the next base node; the clusters that pass the size
\* test wait to be put.
ProcessNode(x) ==
    /\ x \in DOMAIN workers
    /\ workers[x].pc = "run"
    /\ workers[x].node < workers[x].batchEnd
    /\ \E graph \in {createTokenGraph(distributedGraph, workers[x].node,
                                       maxEdges, maxConnectivity)} :
       \E shuffles \in [1..maxIterations -> Shuffles(SeqToSet(getNodes(graph)))] :
       \E start \in {InitClasses(graph, getNodes(graph), 1)} :
       \E tg \in {chineseWhispers(start, 0, TRUE, maxIterations, shuffles)} :
       \E tgNodes \in {SeqToSet(getNodes(tg))} :
          /\ workers' = [workers EXCEPT
                 ![x].pending = findClusters(distributedGraph, workers[x].node, tg,
                                             tgNodes, 0, minCluster),
                 ![x].pc = "put"]
          /\ distributedGraph' = LoadedGraphAfter(distributedGraph, tg)
    /\ UNCHANGED <<loadPc, nread, lastEdge, kernelVars, paramVars, workerLocalVars,
                   numWorkers, capacity, clusterQueue, progress, started, mainPc,
                   mainP, mainGot, writerPc, outFile, totalClusters, produced>>

\* findClusters of worker x: this.clusterQueue.put(cluster)
PutCluster(x) ==
    /\ x \in DOMAIN workers
    /\ workers[x].pc = "put"
    /\ workers[x].pending # <<>>
    /\ CanPut(clusterQueue, capacity)
    /\ clusterQueue' = Enqueue(clusterQueue, Head(workers[x].pending))
    /\ produced' = Append(produced, Head(workers[x].pending))
    /\ workers' = [workers EXCEPT ![x].pending = Tail(@)]
    /\ UNCHANGED <<sharedUnchanged, progress, started, mainPc, mainP, mainGot,
                   writerPc, outFile, totalClusters>>

\* Worker.run of worker x: this.progress.incrementAndGet(); i++
FinishNode(x) ==
    /\ x \in DOMAIN workers
    /\ workers[x].pc = "put"
    /\ workers[x].pending = <<>>
    /\ progress' = progress + 1
    /\ workers' = [workers EXCEPT ![x].node = @ + 1, ![x].pc = "run"]
    /\ UNCHANGED <<sharedUnchanged, clusterQueue, started, mainPc, mainP, mainGot,
                   writerPc, outFile, totalClusters, produced>>

\* Worker.run of worker x returns.
WorkerExit(x) ==
    /\ x \in DOMAIN workers
    /\ workers[x].pc = "run"
    /\ workers[x].node >= workers[x].batchEnd
    /\ workers' = [workers EXCEPT ![x].pc = "done"]
    /\ UNCHANGED <<sharedUnchanged, clusterQueue, progress, started, mainPc, mainP,
                   mainGot, writerPc, outFile, totalClusters, produced>>

WorkerStep(x) == ProcessNode(x) \/ PutCluster(x) \/ FinishNode(x) \/ WorkerExit(x)

\* ClusterWriter.run: take a cluster, writeCluster, totalClusters.incrementAndGet()
WriteCluster ==
    /\ writerPc = "take"
    /\ clusterQueue # <<>>
    /\ ~IsSentinel(Head(clusterQueue))
    /\ outFile' = Append(outFile, Head(clusterQueue))
    /\ totalClusters' = totalClusters + 1
    /\ clusterQueue' = Dequeue(clusterQueue)
    /\ UNCHANGED <<sharedUnchanged, progress, workers, started, mainPc, mainP, mainGot,
                   writerPc, produced>>

\* ClusterWriter.run: the cluster with node -1 is taken; break,
\* outputStream.close() and return
TakeSentinel ==
    /\ writerPc = "take"
    /\ clusterQueue # <<>>
    /\ IsSentinel(Head(clusterQueue))
    /\ clusterQueue' = Dequeue(clusterQueue)
    /\ writerPc' = "exited"
    /\ UNCHANGED <<sharedUnchanged, progress, workers, started, mainPc, mainP, mainGot,
                   outFile, totalClusters, produced>>

WriterNext == WriteCluster \/ TakeSentinel

SensesNext ==
    \/ MainNext
    \/ \E x \in 1..MaxWorkers : WorkerStep(x)
    \/ WriterNext

\* findClusters of worker x: put throws InterruptedException because the
\* thread of worker x was interrupted; the handler prints the stack trace
\* and the loop goes on with the next round.
InterruptedPut(x) ==
    /\ x \in DOMAIN workers
    /\ workers[x].pc = "put"
    /\ workers[x].pending # <<>>
    /\ workers' = [workers EXCEPT ![x].pending = Tail(@)]
    /\ UNCHANGED <<sharedUnchanged, clusterQueue, progress, started, mainPc, mainP,
                   mainGot, writerPc, outFile, totalClusters, produced>>

InterruptNext ==
    \/ SensesNext
    \/ \E x \in 1..MaxWorkers : InterruptedPut(x)

\* ClusterWriter.run: writeCluster throws IOException for the cluster just
\* taken; the exception leaves the loop, the handler of the outer try prints
\* the stack trace and run returns.  The cluster is not counted, and what
\* the file holds of it is not part of the records written.
WriteFails ==
    /\ writerPc = "take"
    /\ clusterQueue # <<>>
    /\ ~IsSentinel(Head(clusterQueue))
    /\ clusterQueue' = Dequeue(clusterQueue)
    /\ writerPc' = "exited"
    /\ UNCHANGED <<sharedUnchanged, progress, workers, started, mainPc, mainP, mainGot,
                   outFile, totalClusters, produced>>

WriteFailsNext ==
    \/ SensesNext
    \/ WriteFails

\* --------------------------------------------------------- WSI.loadGraph
LoadInit ==
    /\ SensesIdle
    /\ KernelIdle
    /\ WorkerIdle
    /\ distributedGraph = NewGraph(LoaderInitialSize)
    /\ loadPc = "reading"
    /\ nread = 0
    /\ lastEdge = NoEdge

\* One round of the loader's while loop: three reads, each int boxed on its
\* own for the call graph.addEdge(readInt(), readInt(), readFloat()).
ReadEdge ==
    /\ loadPc = "reading"
    /\ nread < MaxTriples
    /\ \E from \in FileIds, to \in FileIds, weight \in Weights :
          /\ distributedGraph' =
                addEdge(distributedGraph, from, to, weight, SameBoxed(from, to))
          /\ lastEdge' = [from |-> from, to |-> to, weight |-> weight]
    /\ nread' = nread + 1
    /\ UNCHANGED loadPc
    /\ UNCHANGED notLoadVars

\* available() = 0: loadDistributedGraph returns the graph.
EndOfFile ==
    /\ loadPc = "reading"
    /\ loadPc' = "loaded"
    /\ UNCHANGED <<distributedGraph, nread, lastEdge>>
    /\ UNCHANGED notLoadVars

\* this.distributedGraph.sortEdges()
SortEdges ==
    /\ loadPc = "loaded"
    /\ distributedGraph' = sortEdges(distributedGraph)
    /\ loadPc' = "sorted"
    /\ UNCHANGED <<nread, lastEdge>>
    /\ UNCHANGED notLoadVars

LoadNext == ReadEdge \/ EndOfFile \/ SortEdges

\* --------------------------------------------------------- specifications
\* The loader (WSI.loadGraph) on any edge file.
SpecLoad == LoadInit /\ [][LoadNext]_vars

\* calculate_edges on one batch of any similarity matrix.
SpecCalc == CalcInit /\ [][CalcNext]_vars

\* calculate_edges on one batch when there are fewer than n + 1 tokens.
SpecCalcFew == CalcFewInit /\ [][CalcFewNext]_vars

\* One clustering worker on its batch of a loaded graph.
SpecWorker == WorkerInit /\ [][WorkerNext]_vars

\* calculateSenses: the main thread, the workers and the writer.
SpecSenses == SensesInit /\ [][SensesNext]_vars

\* calculateSenses under a scheduler that lets every thread that can take a
\* step take one eventually.
\* The runs are those with one worker, the small queue and no sweep of
\* chineseWhispers.
SensesFairInit ==
    /\ SensesInit
    /\ numWorkers = 1
    /\ capacity = SmallCapacity
    /\ maxIterations = 0

SpecSensesFair ==
    /\ SensesFairInit
    /\ [][SensesNext]_vars
    /\ WF_vars(MainNext)
    /\ WF_vars(WriterNext)
    /\ \A x \in 1..MaxWorkers : SF_vars(WorkerStep(x))

\* calculateSenses with worker threads that can be interrupted from outside.
SpecInterrupt == SensesInit /\ [][InterruptNext]_vars

\* calculateSenses with an output file whose writes can fail.
SpecWriteFails == SensesInit /\ [][WriteFailsNext]_vars

\* argpartition on any input.
SpecPartition == PartitionInit /\ [][PartitionNext]_vars

\* argpartition is a sequential loop: a step that can be taken is taken.
SpecPartitionAny == PartitionAnyInit /\ [][PartitionNext]_vars /\ WF_vars(PartitionNext)

\* ------------------------------------------------- properties of the Graph
Adj(g, v) == SeqToSet(g.edgeSources[v])

\* Every entry of u's list that names v has the weight of every entry of
\* v's list that names u, and there is such an entry.
GraphSymmetric(g) ==
    \A u \in Ids, v \in Ids :
        v \in Adj(g, u) =>
            /\ u \in Adj(g, v)
            /\ \A p \in 1..Len(g.edgeSources[u]), q \in 1..Len(g.edgeSources[v]) :
                  (g.edgeSources[u][p] = v /\ g.edgeSources[v][q] = u)
                      => g.edgeWeights[u][p] = g.edgeWeights[v][q]

NoDuplicates(g) ==
    \A v \in Ids : \A p \in 1..Len(g.edgeSources[v]), q \in 1..Len(g.edgeSources[v]) :
        p # q => g.edgeSources[v][p] # g.edgeSources[v][q]

ListsAligned(g) ==
    \A v \in Ids : Len(g.edgeSources[v]) = Len(g.edgeWeights[v])

WeightsAscending(g) ==
    \A v \in Ids : \A p \in 1..Len(g.edgeWeights[v]), q \in 1..Len(g.edgeWeights[v]) :
        p < q => g.edgeWeights[v][p] <= g.edgeWeights[v][q]

\* How often the pair (x, w) occurs in v's lists.
PairCount(g, v, x, w) ==
    Cardinality({p \in 1..Len(g.edgeSources[v]) :
                    /\ p <= Len(g.edgeWeights[v])
                    /\ g.edgeSources[v][p] = x
                    /\ g.edgeWeights[v][p] = w})

SamePairs(g, h) ==
    \A v \in Ids, x \in Ids, w \in Weights :
        PairCount(g, v, x, w) = PairCount(h, v, x, w)

\* C1: in every state of the loader (after any sequence of addEdge calls,
\* before and after sortEdges) adjacency is symmetric and both directions of
\* an edge carry the same weight.
C1_GraphSymmetry == GraphSymmetric(distributedGraph)

\* C1 witness: a sorted graph in which some node has two neighbors.
C1_Witness ==
    /\ loadPc = "sorted"
    /\ \E u \in Ids : Len(distributedGraph.edgeSources[u]) >= 2

\* C2: no node is in its own adjacency list, whatever triples the edge file
\* holds.
C2_NoSelfLoops == \A v \in Ids : v \notin Adj(distributedGraph, v)

\* The loader's step re-inserts an edge that is already stored, in either
\* orientation.
IsReinsert ==
    /\ loadPc = "reading"
    /\ nread' = nread + 1
    /\ \/ lastEdge'.to \in Adj(distributedGraph, lastEdge'.from)
       \/ lastEdge'.from \in Adj(distributedGraph, lastEdge'.to)

\* C3: re-inserting a stored edge changes no neighbor list and no weight
\* list, so both directions keep the first weight; and no list ever holds a
\* neighbor twice.
C3_FirstWriterWins ==
    /\ [](NoDuplicates(distributedGraph))
    /\ [][IsReinsert =>
            /\ distributedGraph'.edgeSources = distributedGraph.edgeSources
            /\ distributedGraph'.edgeWeights = distributedGraph.edgeWeights
            /\ getEdgeWeight(distributedGraph', lastEdge'.from, lastEdge'.to)
                 = getEdgeWeight(distributedGraph, lastEdge'.from, lastEdge'.to)
            /\ getEdgeWeight(distributedGraph', lastEdge'.to, lastEdge'.from)
                 = getEdgeWeight(distributedGraph, lastEdge'.from, lastEdge'.to)
         ]_vars

\* C3 witness: the last triple read names a stored edge between two nodes
\* and carries another weight than the stored one.
C3_Witness ==
    /\ nread >= 2
    /\ lastEdge.from # lastEdge.to
    /\ lastEdge.to \in Adj(distributedGraph, lastEdge.from)
    /\ getEdgeWeight(distributedGraph, lastEdge.from, lastEdge.to) # lastEdge.weight
    /\ getEdgeWeight(distributedGraph, lastEdge.to, lastEdge.from) # lastEdge.weight

\* C4: sortEdges leaves every weight list non-decreasing and moves neighbors
\* and weights together: each node keeps its (neighbor, weight) pairs, and
\* the sorted graph is still symmetric and free of duplicates.
C4_SortEdges ==
    /\ [](loadPc = "sorted" =>
            /\ WeightsAscending(distributedGraph)
            /\ ListsAligned(distributedGraph)
            /\ GraphSymmetric(distributedGraph)
            /\ NoDuplicates(distributedGraph))
    /\ [][(loadPc = "loaded" /\ loadPc' = "sorted")
            => SamePairs(distributedGraph, distributedGraph')]_vars

\* C4 witness: the file was (0,1,w), (0,BigNode,1) with w > 1, and the sort
\* moved neighbor BigNode in front of neighbor 1.
C4_Witness ==
    /\ loadPc = "sorted"
    /\ nread = 2
    /\ lastEdge = [from |-> 0, to |-> BigNode, weight |-> 1]
    /\ distributedGraph.edgeSources[0] = <<BigNode, 1>>
    /\ distributedGraph.edgeWeights[0][1] < distributedGraph.edgeWeights[0][2]

\* ---------------------------------------------- properties of the kernel
\* The scores 0.9, 0.1, 0.5, 0.7, 0.2 of scenario S1, times ten.
IsS1 == size = 5 /\ k = 2 /\ c_sim[0] = 9 /\ c_sim[1] = 1 /\ c_sim[2] = 5
        /\ c_sim[3] = 7 /\ c_sim[4] = 2

\* C5 (as stated): after argpartition with 0 < k < size the first k entries
\* of the index array carry the k smallest scores; for S1 they are {1, 4}.
C5_SmallestFirst ==
    (kpc = "partitioned" /\ 0 < k /\ k < size) =>
        /\ \A a \in 0..(k - 1), b \in k..(size - 1) :
              c_sim[c_nearest[a]] <= c_sim[c_nearest[b]]
        /\ IsS1 => {c_nearest[0], c_nearest[1]} = {1, 4}

\* C5 (amended): after argpartition with 0 < k < size the first k entries of
\* the index array carry the k largest scores: every score at a position
\* below k is >= every score at a position from k on; for S1 the first two
\* entries are a permutation of {0, 3}.
C5_LargestFirst ==
    (kpc = "partitioned" /\ 0 < k /\ k < size) =>
        /\ \A a \in 0..(k - 1), b \in k..(size - 1) :
              c_sim[c_nearest[a]] >= c_sim[c_nearest[b]]
        /\ IsS1 => {c_nearest[0], c_nearest[1]} = {0, 3}

\* C5 witness: argpartition has returned for S1 with the index array
\* reordered.
C5_Witness ==
    /\ kpc = "partitioned"
    /\ IsS1
    /\ c_nearest # nearest_temp(size)
    /\ c_sim[c_nearest[0]] > c_sim[c_nearest[2]]

\* The token whose row is being processed, and its position in the first
\* n+1 entries of the partitioned index array.
Token == start_index + i
SelfPositions == {p \in 0..n : c_nearest[p] = Token}
TokenSlots == TokenBase(Token)..(TokenBase(Token) + n - 1)

\* C6: when the token itself is among the first n+1 entries of the
\* partitioned index array, after the loop its n slots hold exactly the other
\* n entries, each as (token, entry, score of entry), and none of its slots
\* holds an edge to the token itself.
C6_SelfSkipped ==
    (kpc = "emitted" /\ SelfPositions # {}) =>
        /\ \A x \in TokenSlots : edges[x].to_index # edges[x].from_index
        /\ \A p \in (0..n) \ SelfPositions :
              \E x \in TokenSlots :
                  edges[x] = [from_index |-> Token,
                              to_index   |-> c_nearest[p],
                              weight     |-> c_sim[c_nearest[p]]]

\* C7: every slot written while a row is processed is one of the n slots
\* of that row's token.
C7_OwnSlotsOnly == (kpc \in {"emit", "emitted", "crashed"}) => written \subseteq TokenSlots

\* C23 as stated: with N_TOKENS < n + 1 no entry of the index array at a
\* position >= N_TOKENS is read, every edge written has a to-index that is a
\* token, and after the loop for a token exactly N_TOKENS - 1 slots were
\* written, one for every other token.
C23_FewTokens ==
    (N_TOKENS < n + 1) =>
        /\ (kpc = "emit" /\ j < n + 1) => j < N_TOKENS
        /\ \A x \in EdgeSlots :
              edges[x] # Unwritten => edges[x].to_index \in 0..(N_TOKENS - 1)
        /\ kpc = "emitted" =>
              /\ Cardinality(written) = N_TOKENS - 1
              /\ \A t \in (0..(N_TOKENS - 1)) \ {start_index + i} :
                    \E x \in written \cap EdgeSlots :
                        /\ edges[x].from_index = start_index + i
                        /\ edges[x].to_index = t

\* ------------------------------------------------- properties of the worker
\* The clusters put on the queue for baseNode, in order.
RECURSIVE PutClusters(_)
PutClusters(fs) ==
    IF fs = <<>> THEN <<>>
    ELSE IF fs[1].put THEN <<fs[1].cluster>> \o PutClusters(Tail(fs))
         ELSE PutClusters(Tail(fs))

\* C8: chineseWhispers performs at most maxIterations sweeps over the nodes
\* of an ego network and then returns, also when the last sweep still changed
\* a label: the number of sweeps never exceeds maxIterations, and once it has
\* reached maxIterations no further sweep can start and the return can.
C8_SweepsBounded ==
    /\ sweeps <= maxIterations
    /\ (wpc = "whispers" /\ sweeps >= maxIterations)
          => (~ENABLED SweepNodes /\ ENABLED WhispersReturn)

\* The cap was reached with the last sweep still changing a label, and
\* chineseWhispers has returned.
C8_Witness ==
    /\ wpc = "clusters"
    /\ maxIterations >= 1
    /\ sweeps = maxIterations
    /\ changed

\* C9: findClusters emits a cluster exactly when it has at least minCluster
\* members: every cluster on the queue has at least minCluster members, and
\* every cluster formed and not put has fewer.
C9_MinClusterFilter ==
    /\ \A p \in 1..Len(clusterQueue) :
          Cardinality(clusterQueue[p].members) >= minCluster
    /\ \A p \in 1..Len(formed) :
          formed[p].put <=> Cardinality(formed[p].cluster.members) >= minCluster

\* One cluster of baseNode was put and another was dropped.
C9_Witness ==
    /\ \E p \in 1..Len(formed) : formed[p].put
    /\ \E p \in 1..Len(formed) :
          /\ ~formed[p].put
          /\ Cardinality(formed[p].cluster.members) = minCluster - 1

\* C10 as stated: the clusters emitted for one base node carry the sense ids
\* 1, 2, 3, ... in order of emission.
C10_SensesFromOne ==
    \A p \in 1..Len(PutClusters(formed)) : PutClusters(formed)[p].sense = p

\* C10: the clusters emitted for one base node carry the sense ids
\* 0, 1, 2, ... in order of emission: the first emitted cluster has id 0, each
\* later one the previous id plus one, and a dropped cluster uses up no id.
C10_SensesFromZero ==
    \A p \in 1..Len(PutClusters(formed)) :
        /\ PutClusters(formed)[p].sense = p - 1
        /\ PutClusters(formed)[p].node = PutClusters(formed)[1].node

\* Two clusters of baseNode were put, the second after a dropped cluster.
C10_Witness ==
    \E p, q, r \in 1..Len(formed) :
        /\ q < r
        /\ formed[p].put /\ ~formed[q].put /\ formed[r].put
        /\ formed[p].cluster.sense = 0
        /\ formed[r].cluster.sense = 1

\* C11: every member (x, weight) of a cluster of base node v has x among the
\* neighbors of v in the loaded graph and carries the weight of the edge
\* (v, x) of that graph; the weight is never missing.
C11_MemberWeights ==
    \A p \in 1..Len(formed) :
        \A m \in formed[p].cluster.members :
            LET v == formed[p].cluster.node
            IN  /\ m.node \in SeqToSet(getNeighbors(distributedGraph, v))
                /\ m.weight # Null
                /\ m.weight = Box(getEdgeWeight(distributedGraph, v, m.node))

\* A cluster was put whose member has, in the ego network, only edges of a
\* weight other than the weight it carries.
C11_Witness ==
    /\ wpc = "clusters"
    /\ \E p \in 1..Len(formed) :
          /\ formed[p].put
          /\ \E m \in formed[p].cluster.members :
                /\ getEdges(tokenGraph, m.node) # <<>>
                /\ \A q \in 1..Len(getEdges(tokenGraph, m.node)) :
                      Box(getEdges(tokenGraph, m.node)[q].weight) # m.weight

\* The first maxEdges entries of the neighbor list of baseNode.
TruncatedNeighbors ==
    LET neighbors == getNeighbors(distributedGraph, baseNode)
    IN  {neighbors[p] : p \in 1..Min(maxEdges, Len(neighbors))}

\* createTokenGraph has built the ego network of baseNode.
EgoBuilt == wpc \in {"classes", "whispers", "clusters"}

\* The scenario of C17: token 0 with the neighbors 1, 2, 3, the three edges
\* among them of weight 0.5, 0.7, 0.6, and the default limits.
IsTriangleScenario ==
    /\ baseNode = 0
    /\ SeqToSet(getNeighbors(distributedGraph, 0)) = {1, 2, 3}
    /\ getEdgeWeight(distributedGraph, 1, 2) = 5
    /\ getEdgeWeight(distributedGraph, 2, 3) = 7
    /\ getEdgeWeight(distributedGraph, 1, 3) = 6
    /\ maxIterations = DefaultMaxIterations
    /\ maxEdges = DefaultMaxEdges
    /\ maxConnectivity = DefaultMaxEdges

\* C17: in the triangle scenario, for every shuffle order, chineseWhispers
\* returns with 1, 2 and 3 sharing one class, and findClusters forms exactly
\* one cluster, with the members (1, w(0,1)), (2, w(0,2)), (3, w(0,3)), which
\* is put on the queue whenever minCluster <= 3.
C17_TriangleOneCluster ==
    (IsTriangleScenario /\ wpc = "clusters") =>
        /\ getNodeClass(tokenGraph, 1) = getNodeClass(tokenGraph, 2)
        /\ getNodeClass(tokenGraph, 2) = getNodeClass(tokenGraph, 3)
        /\ getNodeClass(tokenGraph, 1) # Null
        /\ sweeps < maxIterations
        /\ fcNodes = {} =>
              /\ Len(formed) = 1
              /\ formed[1].cluster.members =
                    {[node |-> x, weight |-> Box(getEdgeWeight(distributedGraph, 0, x))] :
                        x \in {1, 2, 3}}
              /\ formed[1].put <=> minCluster <= 3
              /\ minCluster <= 3 =>
                    clusterQueue = <<formed[1].cluster>>

\* The triangle's single cluster was put after more than two sweeps.
C17_Witness ==
    /\ IsTriangleScenario
    /\ wpc = "clusters"
    /\ fcNodes = {}
    /\ sweeps > 2
    /\ Len(clusterQueue) = 1

\* No two different neighbors of v are adjacent to each other in G.
NoTwoNeighborsAdjacent(G, v) ==
    \A u, w \in SeqToSet(getNeighbors(G, v)) :
        u # w => w \notin SeqToSet(getNeighbors(G, u))

\* C18: if no two neighbors of the base node are adjacent to each other in
\* the loaded graph, the ego network is empty and no cluster is formed.
C18_NoEdgesNoClusters ==
    (EgoBuilt /\ NoTwoNeighborsAdjacent(distributedGraph, baseNode)) =>
        /\ tokenGraph.nodes = {}
        /\ formed = <<>>

\* C19: every node of the ego network is one of the first maxEdges entries
\* of the neighbor list of the base node, and every edge of the ego network
\* joins two such entries.
C19_EgoWithinTruncated ==
    EgoBuilt =>
        /\ tokenGraph.nodes \subseteq TruncatedNeighbors
        /\ \A u \in tokenGraph.nodes :
              SeqToSet(getNeighbors(tokenGraph, u)) \subseteq TruncatedNeighbors \ {baseNode}

\* ------------------------------------------ properties of calculateSenses
CountIn(seq, c) == Cardinality({q \in 1..Len(seq) : seq[q] = c})

AllWorkersDone == \A x \in DOMAIN workers : workers[x].pc = "done"

\* C12 as stated: under fair scheduling calculateSenses terminates: the main
\* thread eventually returns and the writer thread eventually exits.
C12_Terminates == <>(mainPc = "returned" /\ writerPc = "exited")

\* C13: every cluster a worker has put on the queue is in the queue or in
\* the cluster file, once; the file holds nothing else; totalClusters counts
\* the records written; and when the writer has exited every cluster that
\* was put has been written exactly once.
C13_WrittenExactlyOnce ==
    /\ totalClusters = Len(outFile)
    /\ \A q \in 1..Len(produced) :
          /\ CountIn(produced, produced[q]) = 1
          /\ CountIn(outFile, produced[q]) + CountIn(clusterQueue, produced[q]) = 1
    /\ \A q \in 1..Len(outFile) : CountIn(produced, outFile[q]) = 1
    /\ writerPc = "exited" =>
          /\ Len(outFile) = Len(produced)
          /\ \A q \in 1..Len(produced) : CountIn(outFile, produced[q]) = 1

\* A worker waits in put on a full queue after the writer has written a
\* record.
C13_Witness ==
    /\ outFile # <<>>
    /\ ~CanPut(clusterQueue, capacity)
    /\ \E x \in DOMAIN workers : workers[x].pc = "put" /\ workers[x].pending # <<>>

\* C14: no record of the cluster file has node -1 and totalClusters counts
\* the records only; the step of the writer that takes the cluster with node
\* -1 writes nothing, counts nothing and ends the writer; after that the
\* writer takes nothing more.
C14_SentinelNotWritten ==
    /\ [](/\ \A q \in 1..Len(outFile) : outFile[q].node # 0 - 1
          /\ totalClusters <= Len(produced))
    /\ [][(/\ writerPc = "take"
           /\ clusterQueue # <<>>
           /\ Head(clusterQueue).node = 0 - 1
           /\ Len(clusterQueue') < Len(clusterQueue))
          => (/\ writerPc' = "exited"
              /\ UNCHANGED <<outFile, totalClusters>>)]_vars
    /\ [][writerPc = "exited"
          => (/\ writerPc' = "exited"
              /\ UNCHANGED <<outFile, totalClusters>>
              /\ Len(clusterQueue') >= Len(clusterQueue))]_vars

\* The writer has exited after writing a record.
C14_Witness ==
    /\ writerPc = "exited"
    /\ outFile # <<>>

\* C15 as stated: a put that is interrupted is retried: whenever a cluster
\* leaves the clusters a worker has to put, it goes onto the queue, and the
\* sense ids put for one base node have no gap.
C15_InterruptedPutRetried ==
    /\ [](\A q \in 1..Len(produced) :
            produced[q].sense > 0 =>
                \E r \in 1..(q - 1) :
                    /\ produced[r].node = produced[q].node
                    /\ produced[r].sense = produced[q].sense - 1)
    /\ [][\A x \in DOMAIN workers :
            (/\ workers[x].pc = "put"
             /\ workers[x].pending # <<>>
             /\ workers'[x].pending # workers[x].pending)
            => clusterQueue' = Append(clusterQueue, Head(workers[x].pending))]_vars

\* The worker whose range holds base node v.
OwnerOf(v) ==
    {x \in DOMAIN workers : workers[x].batchStart <= v /\ v < workers[x].batchEnd}

\* C16: in the cluster file the records of one worker keep the order of
\* their production: the records for a base node precede the records for
\* every later base node of the same worker, and the records for one base
\* node are in the order of their sense ids.
C16_WorkerOrderKept ==
    \A a, b \in 1..Len(outFile) :
        (a < b /\ OwnerOf(outFile[a].node) = OwnerOf(outFile[b].node)) =>
            \/ outFile[a].node < outFile[b].node
            \/ /\ outFile[a].node = outFile[b].node
               /\ outFile[a].sense < outFile[b].sense

\* The file holds records of two base nodes of one worker with a record of
\* another worker between them.
C16_Witness ==
    \E a, b, c \in 1..Len(outFile) :
        /\ a < b /\ b < c
        /\ OwnerOf(outFile[a].node) = OwnerOf(outFile[c].node)
        /\ outFile[a].node # outFile[c].node
        /\ OwnerOf(outFile[b].node) # OwnerOf(outFile[a].node)

\* Base node v has been processed by worker x.
Processed(x, v) == workers[x].batchStart <= v /\ v < workers[x].node

\* C20: once the workers are started, their ranges have the size
\* floor(N / W), the last one extended to N, are pairwise disjoint and cover
\* [0, N); no base node is processed twice, progress counts the processed
\* base nodes, and when all workers have returned every base node has been
\* processed exactly once and progress is N.
C20_RangesPartition ==
    LET N == getSize(distributedGraph)
        Range(x) == {v \in 0..(N - 1) : workers[x].batchStart <= v /\ v < workers[x].batchEnd}
    IN  started = numWorkers /\ mainPc # "idle" =>
            /\ \A x \in DOMAIN workers :
                  /\ workers[x].batchStart = (x - 1) * (N \div numWorkers)
                  /\ workers[x].batchEnd =
                        IF x = numWorkers THEN N ELSE x * (N \div numWorkers)
                  /\ workers[x].batchStart <= workers[x].batchEnd
            /\ \A x, y \in DOMAIN workers : x # y => Range(x) \cap Range(y) = {}
            /\ UNION {Range(x) : x \in DOMAIN workers} = 0..(N - 1)
            /\ \A v \in 0..(N - 1) :
                  Cardinality({x \in DOMAIN workers : Processed(x, v)}) <= 1
            /\ progress = Cardinality({v \in 0..(N - 1) :
                                         \E x \in DOMAIN workers : Processed(x, v)})
            /\ AllWorkersDone =>
                  /\ progress = N
                  /\ \A v \in 0..(N - 1) :
                        Cardinality({x \in DOMAIN workers : Processed(x, v)}) = 1

\* All workers have returned on a graph whose size is not a multiple of the
\* number of workers.
C20_Witness ==
    /\ AllWorkersDone
    /\ mainPc # "idle"
    /\ numWorkers > 1
    /\ getSize(distributedGraph) % numWorkers # 0
    /\ progress = getSize(distributedGraph)

\* The cluster with node -1 has been put on the queue.
SentinelPut == mainPc \in {"join_writer", "returned"}

\* C21: the cluster with node -1 is put only when every worker has returned;
\* while it is in the queue it is the last element; once it is put no
\* cluster is put any more; and the step of the writer that takes it is the
\* last take of the writer.
C21_SentinelLast ==
    /\ [](/\ SentinelPut => AllWorkersDone
          /\ \A q \in 1..Len(clusterQueue) :
                clusterQueue[q].node = 0 - 1 =>
                    /\ q = Len(clusterQueue)
                    /\ AllWorkersDone
          /\ writerPc = "exited" => (SentinelPut /\ clusterQueue = <<>>))
    /\ [][SentinelPut =>
            /\ produced' = produced
            /\ Len(clusterQueue') <= Len(clusterQueue)]_vars

\* The cluster with node -1 waits in the queue behind a cluster of a worker.
C21_Witness ==
    /\ Len(clusterQueue) >= 2
    /\ clusterQueue[Len(clusterQueue)].node = 0 - 1
    /\ clusterQueue[1].node # 0 - 1

RECURSIVE LabelWeight(_, _, _, _)
LabelWeight(g, x, c, p) ==
    IF p = 0 THEN 0
    ELSE LabelWeight(g, x, c, p - 1)
            + (IF g.nodeClasses[g.edgeSources[x][p]] = c THEN g.edgeWeights[x][p] ELSE 0)

\* The labels of the neighbors of ego node x.
NeighborLabels(g, x) == {g.nodeClasses[y] : y \in SeqToSet(g.edgeSources[x])}

\* The label of x is a label of maximum summed edge weight among the labels
\* of its neighbors.
HasHeaviestLabel(g, x) ==
    /\ g.nodeClasses[x] \in NeighborLabels(g, x)
    /\ \A c \in NeighborLabels(g, x) :
          LabelWeight(g, x, g.nodeClasses[x], Len(g.edgeSources[x]))
              >= LabelWeight(g, x, c, Len(g.edgeSources[x]))

\* C24: a sweep that leaves changed false has changed no label; and when
\* chineseWhispers has returned after fewer than maxIterations sweeps, changed
\* is false and every node of the ego network carries a label of maximum
\* summed edge weight among the labels of its neighbors.
C24_EarlyStopIsFixpoint ==
    /\ [][(wpc = "whispers" /\ sweeps' = sweeps + 1 /\ ~changed')
            => tokenGraph' = tokenGraph]_vars
    /\ []((wpc = "clusters" /\ sweeps < maxIterations) =>
            /\ ~changed
            /\ \A x \in tokenGraph.nodes : HasHeaviestLabel(tokenGraph, x))

\* chineseWhispers has returned before the cap after a sweep that changed
\* labels and one that did not; two nodes share a label.
C24_Witness ==
    /\ wpc = "clusters"
    /\ sweeps >= 2
    /\ sweeps < maxIterations
    /\ \E x, y \in tokenGraph.nodes :
          x # y /\ tokenGraph.nodeClasses[x] = tokenGraph.nodeClasses[y]

\* Every node of g carries one of the initial labels 1..|nodes(g)|.
LabelsInitial(g) ==
    LET count == Cardinality(g.nodes)
    IN  \A x \in g.nodes :
            /\ g.nodeClasses[x] # Null
            /\ g.nodeClasses[x][1] \in 1..count

\* The labels are initial labels before and after every node update of
\* the sweep over shuffled from position p on.
RECURSIVE SweepKeepsLabels(_, _, _)
SweepKeepsLabels(st, shuffled, p) ==
    /\ LabelsInitial(st.graph)
    /\ \/ p > Len(shuffled)
       \/ SweepKeepsLabels(UpdateNode(st, shuffled[p]), shuffled, p + 1)

\* C26: from the label initialization to the end of findClusters, before
\* and after every node update of every sweep with every shuffle, each node
\* of the ego network carries one of the labels 1..|nodes(E)| (never 0, never
\* unset), and each node of the ego network has a neighbor in it.
C26_LabelsStayInitial ==
    /\ [](wpc \in {"whispers", "clusters"} =>
            /\ LabelsInitial(tokenGraph)
            /\ \A x \in tokenGraph.nodes :
                  /\ tokenGraph.edgeSources[x] # <<>>
                  /\ SeqToSet(tokenGraph.edgeSources[x]) \subseteq tokenGraph.nodes)
    /\ []((wpc = "whispers" /\ LoopContinues(z, maxIterations, changed)) =>
            \A shuffled \in Shuffles(tokenGraph.nodes) :
                SweepKeepsLabels([graph |-> tokenGraph, changed |-> FALSE], shuffled, 1))

\* A sweep over at least three nodes has changed labels and another sweep
\* follows.
C26_Witness ==
    /\ wpc = "whispers"
    /\ sweeps >= 1
    /\ LoopContinues(z, maxIterations, changed)
    /\ Cardinality(tokenGraph.nodes) >= 3
    /\ \E x, y \in tokenGraph.nodes :
          x # y /\ tokenGraph.nodeClasses[x] = tokenGraph.nodeClasses[y]

\* The nodes that are members of the q-th cluster findClusters has formed.
FormedNodes(q) == {m.node : m \in formed[q].cluster.members}

\* C25: while findClusters runs, the clusters formed so far (put on the
\* queue or dropped for their size) are non-empty, pairwise disjoint and
\* cover exactly the nodes already removed; the members of one cluster are
\* the nodes of one label; there are at most as many rounds as removed
\* nodes, so that at the end the clusters partition the ego network in at
\* most |nodes(E)| rounds.
C25_ClustersPartition ==
    wpc = "clusters" =>
        /\ \A q \in 1..Len(formed) :
              /\ FormedNodes(q) # {}
              /\ \E x \in FormedNodes(q) :
                    FormedNodes(q) = {y \in tokenGraph.nodes :
                                        tokenGraph.nodeClasses[y] = tokenGraph.nodeClasses[x]}
              /\ \A r \in 1..Len(formed) : r # q => FormedNodes(q) \cap FormedNodes(r) = {}
        /\ UNION {FormedNodes(q) : q \in 1..Len(formed)} = tokenGraph.nodes \ fcNodes
        /\ Len(formed) <= Cardinality(tokenGraph.nodes \ fcNodes)

\* findClusters has ended with two clusters, one of them with two members
\* or more.
C25_Witness ==
    /\ wpc = "clusters"
    /\ fcNodes = {}
    /\ Len(formed) >= 2
    /\ \E q \in 1..Len(formed) : Cardinality(FormedNodes(q)) >= 2

\* How often the value v occurs in the index array.
Occurrences(nearest, v) == Cardinality({p \in DOMAIN nearest : nearest[p] = v})

\* C27: argpartition returns for every index array, every score array and
\* every k in 0..size; every position it reads lies in 0..size-1; and no
\* round changes how often a value occurs in the index array, so that the
\* array on return is a permutation of the array passed in.
C27_PartitionTerminates ==
    /\ <>(kpc = "partitioned")
    /\ [](kpc = "partition" =>
            /\ 0 <= from_i /\ to_i <= size - 1
            /\ from_i < to_i =>
                  LET mid == c_sim[c_nearest[(from_i + to_i) \div 2]]
                      res == InnerLoop(c_nearest, c_sim, mid, from_i, to_i)
                  IN  /\ res.r \in from_i..to_i
                      /\ \A p \in from_i..to_i : res.nearest[p] \in 0..(size - 1))
    /\ [][\A v \in 0..(size - 1) : Occurrences(c_nearest', v) = Occurrences(c_nearest, v)]_vars

\* argpartition has returned for three equal scores and an index array that
\* was reordered on the way.
C27_Witness ==
    /\ kpc = "partitioned"
    /\ size >= 3
    /\ \A x \in 0..(size - 1) : c_sim[x] = c_sim[0]
    /\ k \in 1..(size - 1)
    /\ \E x \in 0..(size - 2) : c_nearest[x] > c_nearest[x + 1]

\* C28: once the writer thread has returned, no thread waits in put on a
\* full queue (nothing takes from the queue any more, so such a put would
\* never return): neither a worker with a cluster to put nor the main
\* thread with the cluster that signals the end.
C28_NoPutWaitsAfterWriter ==
    writerPc = "exited" =>
        /\ \A x \in DOMAIN workers :
              (workers[x].pc = "put" /\ workers[x].pending # <<>>)
                  => CanPut(clusterQueue, capacity)
        /\ mainPc = "sentinel" => CanPut(clusterQueue, capacity)

====
